---- MODULE Spec2Model ----
(***************************************************************************)
(* Model of the interactive file encryptor (src/src/main.rs).              *)
(*                                                                         *)
(* Spec    : the menu loop of FileCryptoApp::run with its handlers, the    *)
(*           file operations encrypt_file / decrypt_file, the session      *)
(*           history and a small file system.                              *)
(* SpecXor : the pure function xor_with_key applied to inputs drawn from   *)
(*           bounded sets.                                                 *)
(***************************************************************************)
EXTENDS Integers, Sequences, FiniteSets, TLC

VARIABLES
    pc,           \* position of the process in run / handle_encrypt / handle_decrypt
    history,      \* FileCryptoApp.history : Vec<HistoryEntry>
    fs,           \* the file system: path -> bytes, defined on existing files
    choice,       \* local `choice` of run: last trimmed menu line
    input_path,   \* local `input_path` of the running handler
    output_path,  \* local `output_path` of the running handler
    last,         \* the last call of encrypt_file / decrypt_file: arguments, locals, result, I/O
    shown,        \* what show_history printed last
    panic_msg,    \* message of the panic that ended the process, or "none"
    xdata,        \* SpecXor: `data` argument of xor_with_key
    xkey,         \* SpecXor: `key` argument of xor_with_key
    xout,         \* SpecXor: result of the last application
    xstep         \* SpecXor: number of applications made

vars == <<pc, history, fs, choice, input_path, output_path, last, shown, panic_msg,
          xdata, xkey, xout, xstep>>

appvars == <<pc, history, fs, choice, input_path, output_path, last, shown, panic_msg>>

xvars == <<xdata, xkey, xout, xstep>>

(***************************************************************************)
(* Bounds                                                                  *)
(***************************************************************************)
\* most Encrypt/Decrypt attempts in one session
MaxHist == 2

\* longest file present when the session starts
MaxFileLen == 3

\* longest data / key given to xor_with_key in SpecXor
MaxLen == 3

MaxKeyLen == 2

(***************************************************************************)
(* Bytes (u8) and strings                                                  *)
(***************************************************************************)
ByteWidth == 8

RECURSIVE XorBits(_, _, _)
\* bitwise exclusive-or of two integers on n bits (u8 ^ u8 for n = 8)
XorBits(a, b, n) ==
    IF n = 0 THEN 0
    ELSE (((a % 2) + (b % 2)) % 2) + 2 * XorBits(a \div 2, b \div 2, n - 1)

BitXor(a, b) == XorBits(a, b, ByteWidth)

\* sequences over S of length at most n
SeqUpTo(S, n) == UNION {[1..k -> S] : k \in 0..n}

\* characters are one-character strings; a Rust String is a sequence of them
WhiteSpace == {" ", "\n"}

\* char::is_whitespace as used by str::trim
IsWhitespace(c) == c \in WhiteSpace

RECURSIVE TrimStart(_)
TrimStart(s) ==
    IF s # <<>> /\ IsWhitespace(Head(s)) THEN TrimStart(Tail(s)) ELSE s

RECURSIVE TrimEnd(_)
TrimEnd(s) ==
    IF s # <<>> /\ IsWhitespace(s[Len(s)]) THEN TrimEnd(SubSeq(s, 1, Len(s) - 1)) ELSE s

\* input.trim().to_string()
trim(s) == TrimEnd(TrimStart(s))

\* UTF-8 encoding of one character
Utf8(c) ==
    CASE c = "K" -> <<75>>
      [] c = "L" -> <<76>>
      [] c = "a" -> <<97>>
      [] c = "b" -> <<98>>
      [] c = "." -> <<46>>
      [] c = "e" -> <<101>>
      [] c = "U+00E9" -> <<195, 169>>
      [] c = " " -> <<32>>
      [] OTHER -> <<63>>

RECURSIVE as_bytes(_)
\* str::as_bytes: the UTF-8 bytes of the string
as_bytes(s) == IF s = <<>> THEN <<>> ELSE Utf8(Head(s)) \o as_bytes(Tail(s))

(***************************************************************************)
(* Core transform                                                          *)
(***************************************************************************)
RECURSIVE XorFrom(_, _, _)
\* the iterator pipeline of xor_with_key from 0-based index i on
XorFrom(data, key, i) ==
    IF i >= Len(data) THEN <<>>
    ELSE <<BitXor(data[i + 1], key[(i % Len(key)) + 1])>> \o XorFrom(data, key, i + 1)

\* variant of xor_with_key: wrapping addition in place of exclusive-or
xor_with_key_add(data, key) ==
    [j \in 1..Len(data) |-> (data[j] + key[((j - 1) % Len(key)) + 1]) % 256]

\* variant of xor_with_key: the key is not repeated, its last byte is reused
xor_with_key_clamp(data, key) ==
    [j \in 1..Len(data) |-> BitXor(data[j], key[IF j <= Len(key) THEN j ELSE Len(key)])]

\* fn xor_with_key(data: &[u8], key: &[u8]) -> Vec<u8>
xor_with_key(data, key) == XorFrom(data, key, 0)

(***************************************************************************)
(* File system: std::fs::read and std::fs::write                           *)
(***************************************************************************)
\* the environment of one file operation: whether the input may be read (r),
\* whether the output can be created (create) and how many bytes the device
\* then accepts (cap)
Caps == {1, MaxFileLen}

Envs ==
    {e \in [r : BOOLEAN, create : BOOLEAN, cap : Caps] :
        /\ ~e.r => e.create
        /\ ~(e.r /\ e.create) => e.cap = MaxFileLen}

\* one entry of the I/O log of a file operation
ReadOp(path, ok) == [op |-> "read", path |-> path, status |-> IF ok THEN "ok" ELSE "err"]

WriteOp(path, status) == [op |-> "write", path |-> path, status |-> status]

\* fs::read(path): the whole file, or an error when it is missing or unreadable
fs_read(fsys, path, readable) ==
    IF path \in DOMAIN fsys /\ readable
    THEN [ok |-> TRUE, data |-> fsys[path]]
    ELSE [ok |-> FALSE, data |-> <<>>]

Put(fsys, path, contents) ==
    [p \in (DOMAIN fsys) \cup {path} |-> IF p = path THEN contents ELSE fsys[p]]

\* fs::write(path, contents): create or truncate, then write_all
fs_write(fsys, path, contents, env) ==
    IF ~env.create THEN [ok |-> FALSE, status |-> "create_err", fs |-> fsys]
    ELSE IF Len(contents) <= env.cap
    THEN [ok |-> TRUE, status |-> "ok", fs |-> Put(fsys, path, contents)]
    ELSE [ok |-> FALSE, status |-> "write_all_err",
          fs |-> Put(fsys, path, SubSeq(contents, 1, env.cap))]

(***************************************************************************)
(* File operations                                                         *)
(***************************************************************************)
Ok == "Ok"

ReadFailure == "Failed to read input file"

EmptyPassword == "Password cannot be empty."

WriteFailure == "Failed to write output file"

\* variant of encrypt_file: the password is validated before the input is read
encrypt_file_check_first(fsys, in, out, password, env) ==
    LET key_bytes == as_bytes(password) IN
    IF key_bytes = <<>>
    THEN [result |-> EmptyPassword, fs |-> fsys, io |-> <<>>, data |-> <<>>]
    ELSE
      LET rd == fs_read(fsys, in, env.r) IN
      IF ~rd.ok
      THEN [result |-> ReadFailure, fs |-> fsys, io |-> <<ReadOp(in, FALSE)>>, data |-> <<>>]
      ELSE
        LET encrypted == xor_with_key(rd.data, key_bytes)
            wr == fs_write(fsys, out, encrypted, env)
        IN  [result |-> IF wr.ok THEN Ok ELSE WriteFailure,
             fs |-> wr.fs,
             io |-> <<ReadOp(in, TRUE), WriteOp(out, wr.status)>>,
             data |-> rd.data]

\* variant of encrypt_file: an unreadable input is treated as an empty file
encrypt_file_missing_as_empty(fsys, in, out, password, env) ==
    LET rd == fs_read(fsys, in, env.r)
        key_bytes == as_bytes(password)
    IN
    IF key_bytes = <<>>
    THEN [result |-> EmptyPassword, fs |-> fsys, io |-> <<ReadOp(in, rd.ok)>>, data |-> rd.data]
    ELSE
      LET encrypted == xor_with_key(rd.data, key_bytes)
          wr == fs_write(fsys, out, encrypted, env)
      IN  [result |-> IF wr.ok THEN Ok ELSE WriteFailure,
           fs |-> wr.fs,
           io |-> <<ReadOp(in, rd.ok), WriteOp(out, wr.status)>>,
           data |-> rd.data]

\* fn encrypt_file(input_path, output_path, password) -> Result<(), String>
encrypt_file(fsys, in, out, password, env) ==
    LET rd == fs_read(fsys, in, env.r) IN
    IF ~rd.ok
    THEN [result |-> ReadFailure, fs |-> fsys, io |-> <<ReadOp(in, FALSE)>>, data |-> <<>>]
    ELSE
      LET key_bytes == as_bytes(password) IN
      IF key_bytes = <<>>
      THEN [result |-> EmptyPassword, fs |-> fsys, io |-> <<ReadOp(in, TRUE)>>, data |-> rd.data]
      ELSE
        LET encrypted == xor_with_key(rd.data, key_bytes)
            wr == fs_write(fsys, out, encrypted, env)
        IN  [result |-> IF wr.ok THEN Ok ELSE WriteFailure,
             fs |-> wr.fs,
             io |-> <<ReadOp(in, TRUE), WriteOp(out, wr.status)>>,
             data |-> rd.data]

\* variant of decrypt_file: the password is validated before the input is read
decrypt_file_check_first(fsys, in, out, password, env) ==
    LET key_bytes == as_bytes(password) IN
    IF key_bytes = <<>>
    THEN [result |-> EmptyPassword, fs |-> fsys, io |-> <<>>, data |-> <<>>]
    ELSE
      LET rd == fs_read(fsys, in, env.r) IN
      IF ~rd.ok
      THEN [result |-> ReadFailure, fs |-> fsys, io |-> <<ReadOp(in, FALSE)>>, data |-> <<>>]
      ELSE
        LET decrypted == xor_with_key(rd.data, key_bytes)
            wr == fs_write(fsys, out, decrypted, env)
        IN  [result |-> IF wr.ok THEN Ok ELSE WriteFailure,
             fs |-> wr.fs,
             io |-> <<ReadOp(in, TRUE), WriteOp(out, wr.status)>>,
             data |-> rd.data]

\* variant of decrypt_file: the result of fs::write is dropped
decrypt_file_ignore_write(fsys, in, out, password, env) ==
    LET rd == fs_read(fsys, in, env.r) IN
    IF ~rd.ok
    THEN [result |-> ReadFailure, fs |-> fsys, io |-> <<ReadOp(in, FALSE)>>, data |-> <<>>]
    ELSE
      LET key_bytes == as_bytes(password) IN
      IF key_bytes = <<>>
      THEN [result |-> EmptyPassword, fs |-> fsys, io |-> <<ReadOp(in, TRUE)>>, data |-> rd.data]
      ELSE
        LET decrypted == xor_with_key(rd.data, key_bytes)
            wr == fs_write(fsys, out, decrypted, env)
        IN  [result |-> Ok,
             fs |-> wr.fs,
             io |-> <<ReadOp(in, TRUE), WriteOp(out, wr.status)>>,
             data |-> rd.data]

\* fn decrypt_file(input_path, output_path, password) -> Result<(), String>
decrypt_file(fsys, in, out, password, env) ==
    LET rd == fs_read(fsys, in, env.r) IN
    IF ~rd.ok
    THEN [result |-> ReadFailure, fs |-> fsys, io |-> <<ReadOp(in, FALSE)>>, data |-> <<>>]
    ELSE
      LET key_bytes == as_bytes(password) IN
      IF key_bytes = <<>>
      THEN [result |-> EmptyPassword, fs |-> fsys, io |-> <<ReadOp(in, TRUE)>>, data |-> rd.data]
      ELSE
        LET decrypted == xor_with_key(rd.data, key_bytes)
            wr == fs_write(fsys, out, decrypted, env)
        IN  [result |-> IF wr.ok THEN Ok ELSE WriteFailure,
             fs |-> wr.fs,
             io |-> <<ReadOp(in, TRUE), WriteOp(out, wr.status)>>,
             data |-> rd.data]

(***************************************************************************)
(* Session history                                                         *)
(***************************************************************************)
Encrypt == "Encrypt"

Decrypt == "Decrypt"

\* variant of add_history_entry: only successful attempts are kept
add_history_entry_success_only(hist, path, action, success) ==
    IF success
    THEN Append(hist, [file_path |-> path, action |-> action, success |-> success])
    ELSE hist

\* fn add_history_entry(&mut self, path, action, success)
add_history_entry(hist, path, action, success) ==
    Append(hist, [file_path |-> path, action |-> action, success |-> success])

RECURSIVE SummaryLoop(_, _, _)
\* the loop filling `summary: HashMap<&str, usize>` in show_history
SummaryLoop(hist, i, summary) ==
    IF i > Len(hist) THEN summary
    ELSE
      LET key == IF hist[i].action = Encrypt THEN "encrypt" ELSE "decrypt"
          cur == IF key \in DOMAIN summary THEN summary[key] ELSE 0
      IN  SummaryLoop(hist, i + 1,
                      [k \in (DOMAIN summary) \cup {key} |->
                          IF k = key THEN cur + 1 ELSE summary[k]])

\* summary.get(key).cloned().unwrap_or(0)
GetOr0(summary, key) == IF key \in DOMAIN summary THEN summary[key] ELSE 0

\* one printed history line: index + 1, action_str, file_path, status_str
HistoryLine(hist, i) ==
    <<i, hist[i].action, hist[i].file_path,
      IF hist[i].success THEN "Success" ELSE "Failed">>

NothingShown == [printed |-> FALSE, empty |-> TRUE, lines |-> <<>>, encrypted |-> 0, decrypted |-> 0]

\* variant of show_history: the summary counts successful attempts only
show_history_success_only(hist) ==
    IF hist = <<>>
    THEN [printed |-> TRUE, empty |-> TRUE, lines |-> <<>>, encrypted |-> 0, decrypted |-> 0]
    ELSE
      LET ok == SelectSeq(hist, LAMBDA e : e.success)
          summary == SummaryLoop(ok, 1, <<>>)
      IN
      [printed |-> TRUE, empty |-> FALSE,
       lines |-> [i \in 1..Len(hist) |-> HistoryLine(hist, i)],
       encrypted |-> GetOr0(summary, "encrypt"),
       decrypted |-> GetOr0(summary, "decrypt")]

\* fn show_history(&self): what it prints
show_history(hist) ==
    IF hist = <<>>
    THEN [printed |-> TRUE, empty |-> TRUE, lines |-> <<>>, encrypted |-> 0, decrypted |-> 0]
    ELSE
      LET summary == SummaryLoop(hist, 1, <<>>) IN
      [printed |-> TRUE, empty |-> FALSE,
       lines |-> [i \in 1..Len(hist) |-> HistoryLine(hist, i)],
       encrypted |-> GetOr0(summary, "encrypt"),
       decrypted |-> GetOr0(summary, "decrypt")]

(***************************************************************************)
(* Console input                                                           *)
(***************************************************************************)
\* raw lines as read_line delivers them; the empty line is end of input
ChoiceLines ==
    { <<"1", "\n">>, <<" ", "2", "\n">>, <<"3", "\n">>, <<"4", " ", "\n">>,
      <<"\n">>, <<>> }

PathLines == { <<" ", "a", "\n">>, <<"\n">> }

PasswordLines == { <<" ", "\n">>, <<"K", "\n">>, <<"U+00E9", "\n">> }

\* the files that may be present when the session starts: the first k bytes
\* of "ABCABC..."
InitialFiles == {[i \in 1..k |-> 65 + ((i - 1) % 3)] : k \in 0..MaxFileLen}

InitialPaths == { <<"a">> }

ReadLinePanic == "Failed to read line from stdin."

FlushPanic == "Failed to flush stdout."

\* variant of read_line_trimmed: the error is reported and the prompt repeats
read_line_trimmed_err_retry(at) == [pc |-> at, msg |-> ReadLinePanic]

\* read_line_trimmed when read_line returns Err: expect() panics
read_line_trimmed_err(at) == [pc |-> "panicked", msg |-> ReadLinePanic]

\* flush_stdout when flush returns Err: expect() panics
flush_stdout_err(at) == [pc |-> "panicked", msg |-> FlushPanic]

\* the positions at which the process flushes a prompt and then reads a line
PromptPcs == {"menu", "enc_in", "enc_out", "enc_pw", "dec_in", "dec_out", "dec_pw"}

(***************************************************************************)
(* Handlers                                                                *)
(***************************************************************************)
\* variant of the match in run: any unknown choice leaves the loop
match_choice_quit_by_default(c) ==
    CASE c = <<"1">> -> "handle_encrypt"
      [] c = <<"2">> -> "handle_decrypt"
      [] c = <<"3">> -> "show_history"
      [] OTHER -> "quit"

\* the match on `choice` in run
match_choice(c) ==
    CASE c = <<"1">> -> "handle_encrypt"
      [] c = <<"2">> -> "handle_decrypt"
      [] c = <<"3">> -> "show_history"
      [] c = <<"4">> -> "quit"
      [] OTHER -> "invalid"

EncSuffix == <<".", "e", "n", "c">>

DecSuffix == <<".", "d", "e", "c">>

\* output_path of handle_encrypt: the typed path, or "{input}.enc" when blank
encrypt_output_path(in, typed) == IF typed = <<>> THEN in \o EncSuffix ELSE typed

\* output_path of handle_decrypt: the typed path, or "{input}.dec" when blank
decrypt_output_path(in, typed) == IF typed = <<>> THEN in \o DecSuffix ELSE typed

NoCall ==
    [op |-> "none", input_path |-> <<>>, output_path |-> <<>>, password |-> <<>>,
     data |-> <<>>, result |-> Ok, io |-> <<>>]

\* the tail of handle_encrypt once the password is read: call, report, record
handle_encrypt_call(hist, fsys, in, out, password, env) ==
    LET result == encrypt_file(fsys, in, out, password, env)
        success == result.result = Ok
    IN  [fs |-> result.fs,
         history |-> add_history_entry(hist, in, Encrypt, success),
         last |-> [op |-> "encrypt_file", input_path |-> in, output_path |-> out,
                   password |-> password, data |-> result.data,
                   result |-> result.result, io |-> result.io]]

\* the tail of handle_decrypt once the password is read: call, report, record
handle_decrypt_call(hist, fsys, in, out, password, env) ==
    LET result == decrypt_file(fsys, in, out, password, env)
        success == result.result = Ok
    IN  [fs |-> result.fs,
         history |-> add_history_entry(hist, in, Decrypt, success),
         last |-> [op |-> "decrypt_file", input_path |-> in, output_path |-> out,
                   password |-> password, data |-> result.data,
                   result |-> result.result, io |-> result.io]]

(***************************************************************************)
(* Spec: the session                                                       *)
(***************************************************************************)
XIdle ==
    /\ xdata = <<>>
    /\ xkey = <<0>>
    /\ xout = <<>>
    /\ xstep = 0

\* FileCryptoApp::new and the start of run, on some file system
Init ==
    /\ pc = "menu"
    /\ history = <<>>
    /\ \E present \in SUBSET InitialPaths :
          fs \in [present -> InitialFiles]
    /\ choice = <<>>
    /\ input_path = <<>>
    /\ output_path = <<>>
    /\ last = NoCall
    /\ shown = NothingShown
    /\ panic_msg = "none"
    /\ XIdle

\* run: "1" => self.handle_encrypt()
RunEncrypt ==
    /\ pc = "menu"
    /\ Len(history) < MaxHist
    /\ \E line \in ChoiceLines :
          /\ match_choice(trim(line)) = "handle_encrypt"
          /\ choice' = trim(line)
    /\ pc' = "enc_in"
    /\ UNCHANGED <<history, fs, input_path, output_path, last, shown, panic_msg, xvars>>

\* run: "2" => self.handle_decrypt()
RunDecrypt ==
    /\ pc = "menu"
    /\ Len(history) < MaxHist
    /\ \E line \in ChoiceLines :
          /\ match_choice(trim(line)) = "handle_decrypt"
          /\ choice' = trim(line)
    /\ pc' = "dec_in"
    /\ UNCHANGED <<history, fs, input_path, output_path, last, shown, panic_msg, xvars>>

\* run: "3" => self.show_history()
RunShowHistory ==
    /\ pc = "menu"
    /\ \E line \in ChoiceLines :
          /\ match_choice(trim(line)) = "show_history"
          /\ choice' = trim(line)
    /\ shown' = show_history(history)
    /\ pc' = "menu"
    /\ UNCHANGED <<history, fs, input_path, output_path, last, panic_msg, xvars>>

\* run: "4" => break
RunQuit ==
    /\ pc = "menu"
    /\ \E line \in ChoiceLines :
          /\ match_choice(trim(line)) = "quit"
          /\ choice' = trim(line)
    /\ pc' = "done"
    /\ UNCHANGED <<history, fs, input_path, output_path, last, shown, panic_msg, xvars>>

\* run: _ => "Invalid choice."
RunInvalid ==
    /\ pc = "menu"
    /\ \E line \in ChoiceLines :
          /\ match_choice(trim(line)) = "invalid"
          /\ choice' = trim(line)
    /\ pc' = "menu"
    /\ UNCHANGED <<history, fs, input_path, output_path, last, shown, panic_msg, xvars>>

\* handle_encrypt: let input_path = read_line_trimmed()
EncryptReadInput ==
    /\ pc = "enc_in"
    /\ \E line \in PathLines : input_path' = trim(line)
    /\ pc' = "enc_out"
    /\ UNCHANGED <<history, fs, choice, output_path, last, shown, panic_msg, xvars>>

\* handle_encrypt: let mut output_path = read_line_trimmed(), with the default
EncryptReadOutput ==
    /\ pc = "enc_out"
    /\ \E line \in PathLines : output_path' = encrypt_output_path(input_path, trim(line))
    /\ pc' = "enc_pw"
    /\ UNCHANGED <<history, fs, choice, input_path, last, shown, panic_msg, xvars>>

\* handle_encrypt: read the password, encrypt_file, add_history_entry
EncryptReadPassword ==
    /\ pc = "enc_pw"
    /\ \E line \in PasswordLines, env \in Envs :
          LET r == handle_encrypt_call(history, fs, input_path, output_path, trim(line), env)
          IN  /\ fs' = r.fs
              /\ history' = r.history
              /\ last' = r.last
    /\ pc' = "menu"
    /\ input_path' = <<>>
    /\ output_path' = <<>>
    /\ UNCHANGED <<choice, shown, panic_msg, xvars>>

\* handle_decrypt: let input_path = read_line_trimmed()
DecryptReadInput ==
    /\ pc = "dec_in"
    /\ \E line \in PathLines : input_path' = trim(line)
    /\ pc' = "dec_out"
    /\ UNCHANGED <<history, fs, choice, output_path, last, shown, panic_msg, xvars>>

\* handle_decrypt: let mut output_path = read_line_trimmed(), with the default
DecryptReadOutput ==
    /\ pc = "dec_out"
    /\ \E line \in PathLines : output_path' = decrypt_output_path(input_path, trim(line))
    /\ pc' = "dec_pw"
    /\ UNCHANGED <<history, fs, choice, input_path, last, shown, panic_msg, xvars>>

\* handle_decrypt: read the password, decrypt_file, add_history_entry
DecryptReadPassword ==
    /\ pc = "dec_pw"
    /\ \E line \in PasswordLines, env \in Envs :
          LET r == handle_decrypt_call(history, fs, input_path, output_path, trim(line), env)
          IN  /\ fs' = r.fs
              /\ history' = r.history
              /\ last' = r.last
    /\ pc' = "menu"
    /\ input_path' = <<>>
    /\ output_path' = <<>>
    /\ UNCHANGED <<choice, shown, panic_msg, xvars>>

\* read_line_trimmed: read_line fails at a prompt
ReadLineFails ==
    /\ pc \in PromptPcs
    /\ pc' = read_line_trimmed_err(pc).pc
    /\ panic_msg' = read_line_trimmed_err(pc).msg
    /\ UNCHANGED <<history, fs, choice, input_path, output_path, last, shown, xvars>>

\* flush_stdout: flushing a prompt fails
FlushFails ==
    /\ pc \in PromptPcs
    /\ pc' = flush_stdout_err(pc).pc
    /\ panic_msg' = flush_stdout_err(pc).msg
    /\ UNCHANGED <<history, fs, choice, input_path, output_path, last, shown, xvars>>

Next ==
    \/ RunEncrypt
    \/ RunDecrypt
    \/ RunShowHistory
    \/ RunQuit
    \/ RunInvalid
    \/ EncryptReadInput
    \/ EncryptReadOutput
    \/ EncryptReadPassword
    \/ DecryptReadInput
    \/ DecryptReadOutput
    \/ DecryptReadPassword
    \/ ReadLineFails
    \/ FlushFails

Spec == Init /\ [][Next]_vars

(***************************************************************************)
(* SpecXor: xor_with_key on bounded inputs                                 *)
(***************************************************************************)
XDataBytes == {65, 66, 67}

XKeyBytes == {75, 255}

AppIdle ==
    /\ pc = "menu"
    /\ history = <<>>
    /\ fs = <<>>
    /\ choice = <<>>
    /\ input_path = <<>>
    /\ output_path = <<>>
    /\ last = NoCall
    /\ shown = NothingShown
    /\ panic_msg = "none"

InitXor ==
    /\ xdata \in SeqUpTo(XDataBytes, MaxLen)
    /\ xkey \in SeqUpTo(XKeyBytes, MaxKeyLen) \ {<<>>}
    /\ xout = xdata
    /\ xstep = 0
    /\ AppIdle

\* apply xor_with_key with the key to the current bytes
XorApply ==
    /\ xstep < 2
    /\ xout' = xor_with_key(xout, xkey)
    /\ xstep' = xstep + 1
    /\ UNCHANGED <<xdata, xkey, appvars>>

NextXor == XorApply

SpecXor == InitXor /\ [][NextXor]_vars

(***************************************************************************)
(* Properties                                                              *)
(***************************************************************************)
\* number of records of hist with the given direction
CountAction(hist, action) == Cardinality({i \in DOMAIN hist : hist[i].action = action})

IsPrefix(s, t) == Len(s) <= Len(t) /\ SubSeq(t, 1, Len(s)) = s

\* a step in which handle_encrypt or handle_decrypt finishes an attempt
AttemptStep == pc \in {"enc_pw", "dec_pw"} /\ pc' = "menu"

Called == last.op # "none"

\* C1: applying xor_with_key twice with the same non-empty key gives the data
\* back, for every data (the empty one included).
C1_Involution == (xstep = 2) => (xout = xdata)

C1_Witness ==
    /\ xstep = 2
    /\ xdata = <<65, 66, 67>>
    /\ xkey = <<75, 255>>
    /\ xout = <<65, 66, 67>>

\* C2: a successful file operation leaves in the output file exactly N bytes,
\* byte i being data[i] XOR key[i mod L] ("ABC" under "K" gives 0A 09 08); an
\* empty input with a non-empty password is written as an empty file and the
\* operation succeeds, unless the output file cannot be created.
C2_PointwiseXor ==
    LET key == as_bytes(last.password)
        out == last.output_path
    IN
    /\ (Called /\ last.result = Ok) =>
          /\ key # <<>>
          /\ out \in DOMAIN fs
          /\ Len(fs[out]) = Len(last.data)
          /\ \A i \in 0..(Len(last.data) - 1) :
                fs[out][i + 1] = BitXor(last.data[i + 1], key[(i % Len(key)) + 1])
          /\ (last.data = <<65, 66, 67>> /\ key = <<75>>) => fs[out] = <<10, 9, 8>>
    /\ (Called /\ last.io[1].status = "ok" /\ last.data = <<>> /\ key # <<>>) =>
          /\ Len(last.io) = 2
          /\ last.io[2].status \in {"ok", "create_err"}
          /\ last.io[2].status = "ok" => (last.result = Ok /\ fs[out] = <<>>)

C2_Witness ==
    /\ Called
    /\ last.result = Ok
    /\ last.data = <<65, 66, 67>>
    /\ as_bytes(last.password) = <<195, 169>>
    /\ last.output_path \in DOMAIN fs
    /\ fs[last.output_path] = <<130, 235, 128>>

\* C3 as stated: with an empty password the operation fails with the
\* empty-password error and performs no file I/O at all.
C3_NoIoAtAll ==
    (Called /\ last.password = <<>>) =>
        (last.result = EmptyPassword /\ last.io = <<>>)

\* C3 amended: with an empty password the operation always fails and never
\* writes (the file system is unchanged); the input path is read first, so the
\* failure is the empty-password error when that read succeeds and the read
\* failure when it does not.
C3_EmptyPasswordRejected ==
    [][ (AttemptStep /\ last'.password = <<>>) =>
          /\ last'.result \in {EmptyPassword, ReadFailure}
          /\ last'.io = <<ReadOp(last'.input_path, last'.result = EmptyPassword)>>
          /\ fs' = fs
          /\ ~ history'[Len(history')].success ]_vars

C3_Witness ==
    /\ Called
    /\ last.password = <<>>
    /\ last.result = EmptyPassword
    /\ last.io = <<ReadOp(last.input_path, TRUE)>>
    /\ last.input_path \in DOMAIN fs

\* C4: an Encrypt attempt on an input path that does not exist fails with a
\* read failure, leaves the file system as it was, and appends exactly one
\* record, Encrypt / failed, to the history.
C4_MissingInput ==
    [][ (AttemptStep /\ pc = "enc_pw" /\ input_path \notin DOMAIN fs) =>
          /\ last'.result = ReadFailure
          /\ fs' = fs
          /\ history' = Append(history, [file_path |-> input_path,
                                         action |-> Encrypt,
                                         success |-> FALSE]) ]_vars

C4_Witness ==
    /\ pc = "menu"
    /\ fs = <<>>
    /\ last.op = "encrypt_file"
    /\ last.input_path = <<"a">>
    /\ last.result = ReadFailure
    /\ history = <<[file_path |-> <<"a">>, action |-> Encrypt, success |-> FALSE]>>

\* C5: the history is append-only: every Encrypt or Decrypt attempt appends
\* exactly one record (input path, direction, succeeded iff the file operation
\* returned Ok) and every other step leaves the history as it is.
C5_AppendOnly ==
    [][ /\ IsPrefix(history, history')
        /\ AttemptStep =>
              history' = Append(history,
                                [file_path |-> input_path,
                                 action |-> IF pc = "enc_pw" THEN Encrypt ELSE Decrypt,
                                 success |-> (last'.result = Ok)])
        /\ ~AttemptStep => history' = history ]_vars

C5_Witness ==
    /\ Len(history) = 2
    /\ history[1].success
    /\ ~history[2].success
    /\ choice = <<"3">>
    /\ pc = "done" \/ pc = "menu"

\* C6: the summary printed by Show history counts attempts by direction,
\* failed ones included: encrypted = number of Encrypt records, decrypted =
\* number of Decrypt records, and they add up to the length of the history.
C6_SummaryCountsAttempts ==
    (choice = <<"3">>) =>
        /\ shown.printed
        /\ shown.empty <=> (history = <<>>)
        /\ (history # <<>>) =>
              /\ shown.encrypted = CountAction(history, Encrypt)
              /\ shown.decrypted = CountAction(history, Decrypt)
              /\ shown.encrypted + shown.decrypted = Len(history)

C6_Witness ==
    /\ choice = <<"3">>
    /\ Len(history) = 2
    /\ history[1].action = Encrypt /\ history[1].success
    /\ history[2].action = Decrypt /\ ~history[2].success
    /\ shown.encrypted = 1
    /\ shown.decrypted = 1

\* C7: every attempt, whatever its result, and Show history and an invalid
\* choice return to the menu prompt; the loop is left only from the menu, on
\* the choice "4".
C7_OnlyQuitTerminates ==
    [][ /\ (pc' = "done") => (pc = "menu" /\ choice' = <<"4">>)
        /\ (Len(history') > Len(history)) => (pc' = "menu")
        /\ (pc = "menu" /\ pc' # "panicked"
              /\ choice' \notin {<<"1">>, <<"2">>, <<"4">>}) => (pc' = "menu") ]_vars

C7_Witness ==
    /\ pc = "menu"
    /\ Len(history) = 2
    /\ ~history[1].success
    /\ ~history[2].success
    /\ last.result = WriteFailure
    /\ choice = <<>>

\* C8: when a console line cannot be read the process panics at once: it does
\* not return to a prompt, changes nothing else, and takes no further step.
C8_ReadFailureIsFatal ==
    [][ /\ pc # "panicked"
        /\ (panic_msg' # panic_msg) =>
              /\ pc' = "panicked"
              /\ UNCHANGED <<history, fs, choice, input_path, output_path, last, shown>> ]_vars

C8_Witness ==
    /\ pc = "panicked"
    /\ panic_msg = ReadLinePanic
    /\ Len(history) = 1
    /\ input_path = <<"a">>

\* C9: with the same file system, input path, output path and password,
\* encrypt_file and decrypt_file give the same result and the same file
\* system; the attempts differ only in the direction recorded.
C9_SameOperation ==
    (pc \in {"enc_pw", "dec_pw"}) =>
        \A line \in PasswordLines, env \in Envs :
            LET e == handle_encrypt_call(history, fs, input_path, output_path, trim(line), env)
                d == handle_decrypt_call(history, fs, input_path, output_path, trim(line), env)
            IN  /\ encrypt_file(fs, input_path, output_path, trim(line), env)
                     = decrypt_file(fs, input_path, output_path, trim(line), env)
                /\ e.fs = d.fs
                /\ [e.last EXCEPT !.op = "x"] = [d.last EXCEPT !.op = "x"]
                /\ [e.history EXCEPT ![Len(e.history)].action = "x"]
                     = [d.history EXCEPT ![Len(d.history)].action = "x"]
                /\ e.history[Len(e.history)].action = Encrypt
                /\ d.history[Len(d.history)].action = Decrypt

C9_Witness ==
    /\ Len(history) = 2
    /\ history[1] = [file_path |-> <<"a">>, action |-> Encrypt, success |-> TRUE]
    /\ history[2] = [file_path |-> <<"a">>, action |-> Decrypt, success |-> TRUE]
    /\ <<"a">> \o EncSuffix \in DOMAIN fs
    /\ <<"a">> \o DecSuffix \in DOMAIN fs
    /\ fs[<<"a">> \o EncSuffix] = fs[<<"a">> \o DecSuffix]
    /\ Len(fs[<<"a">> \o DecSuffix]) = 3

\* C10: a file operation reads the input first, writes at most once, to the
\* output path, and only after the read succeeded and the password was found
\* non-empty; a failed read is what is reported when the input is unreadable;
\* a read failure or an empty password leaves every file unchanged, and a
\* write changes no file but the output.
C10_ReadValidateWrite ==
    [][ AttemptStep =>
          LET io == last'.io IN
          /\ Len(io) \in {1, 2}
          /\ io[1].op = "read" /\ io[1].path = input_path
          /\ (io[1].status = "err") <=> (last'.result = ReadFailure)
          /\ (Len(io) = 2) <=>
                (io[1].status = "ok" /\ as_bytes(last'.password) # <<>>)
          /\ (Len(io) = 2) => (io[2].op = "write" /\ io[2].path = output_path)
          /\ (last'.result = EmptyPassword) <=>
                (io[1].status = "ok" /\ as_bytes(last'.password) = <<>>)
          /\ (last'.result \in {ReadFailure, EmptyPassword}) => (fs' = fs)
          /\ \A p \in (DOMAIN fs) \cup (DOMAIN fs') :
                (p # output_path) => (p \in DOMAIN fs /\ p \in DOMAIN fs' /\ fs'[p] = fs[p]) ]_vars

C10_Witness ==
    /\ Called
    /\ last.password = <<>>
    /\ last.result = ReadFailure
    /\ last.input_path \in DOMAIN fs
    /\ last.io = <<ReadOp(last.input_path, FALSE)>>

====
